---- MODULE Spec2Model ----
(***************************************************************************)
(* Model of Projects/Lava Lamp.py: the 1-D temperature profile, the wax    *)
(* blobs and the main loop that steps the profile and updates the blobs;   *)
(* of Projects/Tic-Tac-Toe.py: the board and the event loop of main; and   *)
(* of Projects/Wave Equation Visualizer.py: the flags and options that the *)
(* event loop reads and writes.  Each specification runs one program; the  *)
(* variables of the other programs then stay at their "absent" values.     *)
(*                                                                         *)
(* Numbers.  The program computes in binary floating point.  The model     *)
(* computes in fixed point: a length, a velocity (pixels per tick) and a   *)
(* temperature are integers counting 1/Scale of a pixel or of a degree, a  *)
(* density counts 1/DensityScale of a kg/m^3.  Every product and quotient  *)
(* of the source is rounded to the nearest unit (RoundDiv) where the       *)
(* source rounds to the nearest float.  The wall vectors are kept as the   *)
(* reduced integer direction (-3, 20) resp. (3, 20) with squared norm 409, *)
(* so that a projection onto a wall is a division by 409 and a distance    *)
(* to a wall is kept multiplied by sqrt(409) ("wall units").               *)
(***************************************************************************)
EXTENDS Integers, Sequences, FiniteSets, TLC

VARIABLES
    temperature_profile, \* main's local: the list the name is bound to
    passed_profile,      \* the list object handed to the last step call, as it is after the call
    blobs,               \* main's list of Blob objects (records)
    pc,                  \* position in the program
    k,                   \* index of the blob the for-loop of main is at
    running,             \* main's loop flag
    ticks,               \* completed loop iterations / calls made
    last,                \* history: the stages of the last Blob.update call
    probe,               \* history: the last get_temperature_at_y call made directly
    event,               \* Tic-Tac-Toe and Wave: the event the loop handled last
    board,               \* Tic-Tac-Toe: the global board, rows of cells
    player,              \* Tic-Tac-Toe: the global player
    game_over,           \* Tic-Tac-Toe: the global game_over
    status_text,         \* Tic-Tac-Toe: main's local status_text
    paused,              \* Wave: the global paused
    started,             \* Wave: the global started
    selected_disp_type,  \* Wave: the global selected_disp_type
    selected_vel_type,   \* Wave: the global selected_vel_type
    active_input,        \* Wave: the global active_input
    text_inputs,         \* Wave: the global text_inputs, each text a sequence of characters
    amplitude,           \* Wave: the global amplitude, in units of 1 / ParseScale
    wavenumber           \* Wave: the global wavenumber, in units of 1 / ParseScale

lamp_vars == <<temperature_profile, passed_profile, blobs, pc, k, running, ticks, last, probe>>
ttt_vars == <<board, player, game_over, status_text>>
wave_vars == <<paused, started, selected_disp_type, selected_vel_type, active_input, text_inputs,
               amplitude, wavenumber>>

vars == <<lamp_vars, event, ttt_vars, wave_vars>>

\* the variables of a program that the specification at hand does not run
TttAbsent ==
    /\ board = <<>>
    /\ player = ""
    /\ game_over = FALSE
    /\ status_text = ""

WaveAbsent ==
    /\ paused = FALSE
    /\ started = FALSE
    /\ selected_disp_type = ""
    /\ selected_vel_type = ""
    /\ active_input = ""
    /\ text_inputs = <<>>
    /\ amplitude = 0
    /\ wavenumber = 0

NoEvent == [type |-> "none"]

----------------------------------------------------------------------------
(* Arithmetic helpers *)

Scale == 10 ^ 5
DensityScale == 10 ^ 3

Abs(a) == IF a < 0 THEN -a ELSE a

Max(a, b) == IF a >= b THEN a ELSE b

Min(a, b) == IF a <= b THEN a ELSE b

\* a / b rounded to the nearest integer, b > 0
RoundDiv(a, b) == (a + b \div 2) \div b

RECURSIVE GCD(_, _)
GCD(a, b) == IF b = 0 THEN a ELSE GCD(b, a % b)

Dot(u, v) == u[1] * v[1] + u[2] * v[2]

----------------------------------------------------------------------------
(* Module-level constants of Lava Lamp.py *)

width == 800
height == 600
lamp_bottom_width == 150
lamp_top_width == (4 * lamp_bottom_width) \div 10
lamp_height == 300
lamp_x == (width - lamp_bottom_width) \div 2
lamp_y == (height - lamp_height) \div 2
top_x == lamp_x + (lamp_bottom_width - lamp_top_width) \div 2
bottom_x == lamp_x

\* corner points, in units
top_left == <<top_x * Scale, lamp_y * Scale>>
top_right == <<(top_x + lamp_top_width) * Scale, lamp_y * Scale>>
bottom_left == <<bottom_x * Scale, (lamp_y + lamp_height) * Scale>>
bottom_right == <<(bottom_x + lamp_bottom_width) * Scale, (lamp_y + lamp_height) * Scale>>

\* wall vectors before normalisation, reduced by their common factor
left_raw == <<(lamp_top_width - lamp_bottom_width) \div 2, lamp_height>>
right_raw == <<(lamp_bottom_width - lamp_top_width) \div 2, lamp_height>>
wall_gcd == GCD(Abs(left_raw[1]), left_raw[2])
left_vector == <<left_raw[1] \div wall_gcd, left_raw[2] \div wall_gcd>>
right_vector == <<right_raw[1] \div wall_gcd, right_raw[2] \div wall_gcd>>
norm_sq == Dot(left_vector, left_vector)

\* np.linalg.norm of the reduced vector, sqrt(409) = 20.223748416157...,
\* as Scale * sqrt(409) = norm_whole + norm_frac / 10^7
norm_whole == 2022374
norm_frac == 8416157

\* floor(r * Scale * sqrt(409)): the length r (whole pixels) in wall units
WallUnits(r) == r * norm_whole + (r * norm_frac) \div (10 ^ 7)

\* the normals, times sqrt(409)
n_left == <<-left_vector[2], left_vector[1]>>
n_right == <<right_vector[2], -right_vector[1]>>

g_num == 981
g_den == 100
dt_num == 1
dt_den == 10
dx == 1
alpha_num == 1
alpha_den == 1000
steps == lamp_height

bottom_temp == 60 * Scale
top_temp == 20 * Scale

translucent_density == 940
opaque_density_at_reference == 950
coefficient_of_expansion_num == -4
coefficient_of_expansion_den == 10000
reference_temperature == 20
heat_transfer_coefficient_num == 5
heat_transfer_coefficient_den == 100

num_blobs == 2
blob_radius == 25
spawn_range == 50

----------------------------------------------------------------------------
(* Bounds of the model *)

MaxTicks == 40
SpawnXParts == 2
SpawnYParts == 1

----------------------------------------------------------------------------
(* update_temperature_profile *)

\* faulty variant: the second difference taken with the opposite sign
DiffuseReversed(d) == RoundDiv(alpha_num * dt_num * (-d), alpha_den * dt_den * dx * dx)

\* alpha * dt / dx**2 * d
Diffuse(d) == RoundDiv(alpha_num * dt_num * d, alpha_den * dt_den * dx * dx)

\* faulty variant: line 260 (new_temps[0] = top_temp) left out
NewTempsTopUnpinned(temps) ==
    LET n == Len(temps)
    IN [j \in 1..n |->
          IF j = n THEN bottom_temp
          ELSE IF j = 1 THEN temps[j]
          ELSE temps[j] + Diffuse(temps[j + 1] - 2 * temps[j] + temps[j - 1])]

\* faulty variant: the left neighbour is read from the list being written:
\* temps[i-1] as the loop has already advanced it (what the loop reads when
\* new_temps is temps itself)
NewTempsLeftUpdated(temps) ==
    LET n == Len(temps)
        left(j) == IF j - 1 = 1 THEN temps[1]
                   ELSE temps[j - 1] + Diffuse(temps[j] - 2 * temps[j - 1] + temps[j - 2])
    IN [j \in 1..n |->
          IF j = 1 THEN top_temp
          ELSE IF j = n THEN bottom_temp
          ELSE temps[j] + Diffuse(temps[j + 1] - 2 * temps[j] + left(j))]

\* the list new_temps that the function builds and returns
NewTemps(temps) ==
    LET n == Len(temps)
    IN [j \in 1..n |->
          IF j = 1 THEN top_temp
          ELSE IF j = n THEN bottom_temp
          ELSE temps[j] + Diffuse(temps[j + 1] - 2 * temps[j] + temps[j - 1])]

\* faulty variant: the loop writes into temps itself (no temps.copy())
UpdateInPlace(temps) ==
    [arg |-> NewTemps(temps), result |-> NewTemps(temps)]

\* faulty variant: the list is returned as it came in (the step left undone)
StepSkipped(temps) ==
    [arg |-> temps, result |-> temps]

\* arg: the list object passed in, as it is when the call returns;
\* result: the list the call returns
update_temperature_profile(temps) ==
    [arg |-> temps, result |-> NewTemps(temps)]

----------------------------------------------------------------------------
(* get_temperature_at_y *)

\* floor(a * (steps - 1) / lamp_height) for a >= 0, without forming a * (steps - 1)
ScaledPosition(a) ==
    (steps - 1) * (a \div lamp_height) + ((steps - 1) * (a % lamp_height)) \div lamp_height

\* faulty variant: round() in place of int()
RawIndexRounded(y) ==
    LET a == y - lamp_y * Scale
    IN IF a >= 0 THEN (ScaledPosition(a) + Scale \div 2) \div Scale
       ELSE -((ScaledPosition(-a) + Scale \div 2) \div Scale)

\* int((y - lamp_y) / lamp_height * (steps - 1))
RawIndex(y) ==
    LET a == y - lamp_y * Scale
    IN IF a >= 0 THEN ScaledPosition(a) \div Scale
       ELSE -(ScaledPosition(-a) \div Scale)

\* faulty variant: the pixel row of y taken as the index (no lamp offset, no
\* scaling, no clamp)
SampleIndexPixelRow(y) == y \div Scale

\* faulty variant: the upper clamp min(steps - 1, index) left out
SampleIndexLowClampOnly(y) == Max(0, RawIndex(y))

\* index = max(0, min(steps - 1, index))
SampleIndex(y) == Max(0, Min(steps - 1, RawIndex(y)))

\* temps[i] of a Python list: TRUE iff it raises IndexError
IndexRaises(temps, i) == ~(-Len(temps) <= i /\ i < Len(temps))

\* temps[i] of a Python list (0 stands in when IndexRaises)
GetItem(temps, i) ==
    IF 0 <= i /\ i < Len(temps) THEN temps[i + 1]
    ELSE IF -Len(temps) <= i /\ i < 0 THEN temps[Len(temps) + i + 1]
    ELSE 0

\* the else branch: bottom_temp + (top_temp - bottom_temp) * (index / steps)
DefaultTemperature(index) ==
    bottom_temp + RoundDiv((top_temp - bottom_temp) * index, steps)

\* faulty variant: the profile passed in is ignored and the else branch taken
GetTemperatureDefaultOnly(y, temps) ==
    DefaultTemperature(SampleIndex(y))

\* temps = <<>> stands for None and for the empty list: both are falsy
get_temperature_at_y(y, temps) ==
    IF temps # <<>> THEN GetItem(temps, SampleIndex(y))
    ELSE DefaultTemperature(SampleIndex(y))

----------------------------------------------------------------------------
(* Blob *)

EosGcd == GCD(Abs(opaque_density_at_reference * DensityScale * coefficient_of_expansion_num),
              coefficient_of_expansion_den * Scale)
EosNum == (opaque_density_at_reference * DensityScale * coefficient_of_expansion_num) \div EosGcd
EosDen == (coefficient_of_expansion_den * Scale) \div EosGcd

\* faulty variant: the sign of coefficient_of_expansion lost (wax that
\* contracts when heated)
CalculateDensityContracting(temperature) ==
    opaque_density_at_reference * DensityScale
      - RoundDiv(EosNum * (temperature - reference_temperature * Scale), EosDen)

\* opaque_density_at_reference * (1 + coefficient_of_expansion * (temperature - reference_temperature))
calculate_density(temperature) ==
    opaque_density_at_reference * DensityScale
      + RoundDiv(EosNum * (temperature - reference_temperature * Scale), EosDen)

\* Blob.__init__
BlobInit(x, y, radius) ==
    LET t == get_temperature_at_y(y, <<>>)
    IN [x |-> x, y |-> y, radius |-> radius,
        temperature |-> t,
        density |-> calculate_density(t),
        vy |-> 0, vx |-> 0,
        collided_left |-> FALSE, collided_right |-> FALSE,
        distance_left |-> 0, distance_right |-> 0]

\* faulty variant: the density is recomputed before the temperature is advanced
HeatExchangeStaleDensity(b, temps) ==
    LET solvent_temp == get_temperature_at_y(b.y, temps)
        t == b.temperature
               + RoundDiv(heat_transfer_coefficient_num * (solvent_temp - b.temperature),
                          heat_transfer_coefficient_den)
    IN [b EXCEPT !.temperature = t, !.density = calculate_density(b.temperature)]

\* faulty variant: -= in place of += in line 165
HeatExchangeReversed(b, temps) ==
    LET solvent_temp == get_temperature_at_y(b.y, temps)
        t == b.temperature
               - RoundDiv(heat_transfer_coefficient_num * (solvent_temp - b.temperature),
                          heat_transfer_coefficient_den)
    IN [b EXCEPT !.temperature = t, !.density = calculate_density(t)]

\* lines 162-168: Newton's law of heating, then the density
HeatExchange(b, temps) ==
    LET solvent_temp == get_temperature_at_y(b.y, temps)
        t == b.temperature
               + RoundDiv(heat_transfer_coefficient_num * (solvent_temp - b.temperature),
                          heat_transfer_coefficient_den)
    IN [b EXCEPT !.temperature = t, !.density = calculate_density(t)]

\* lines 171-174: acceleration * dt, in velocity units
VelocityGain(density) ==
    RoundDiv((density - translucent_density * DensityScale)
                * ((g_num * dt_num * Scale) \div (g_den * dt_den)),
             density)

Integrate(b) ==
    LET vy == b.vy + VelocityGain(b.density)
    IN [b EXCEPT !.vy = vy, !.y = b.y + vy]

min_y(b) == (lamp_y + b.radius) * Scale
max_y(b) == (lamp_y + lamp_height - b.radius) * Scale

\* faulty variant: the elif branch (the bottom clamp) left out
ClampTopOnly(b) ==
    IF b.y < min_y(b) THEN [b EXCEPT !.y = min_y(b), !.vy = 0]
    ELSE b

\* lines 177-184
Clamp(b) ==
    IF b.y < min_y(b) THEN [b EXCEPT !.y = min_y(b), !.vy = 0]
    ELSE IF b.y > max_y(b) THEN [b EXCEPT !.y = max_y(b), !.vy = 0]
    ELSE b

\* faulty variant: only vx is replaced by its projection
ProjectVxOnly(b, wall) ==
    LET d == Dot(<<b.vx, b.vy>>, wall)
    IN [b EXCEPT !.vx = RoundDiv(d * wall[1], norm_sq)]

\* velocity projected on a wall: dot(v, w) * w for the unit vector w = wall / sqrt(norm_sq)
Project(b, wall) ==
    LET d == Dot(<<b.vx, b.vy>>, wall)
    IN [b EXCEPT !.vx = RoundDiv(d * wall[1], norm_sq),
                 !.vy = RoundDiv(d * wall[2], norm_sq)]

\* faulty variant: the distances kept with their sign (no np.abs)
DistancesSigned(b) ==
    LET blob_pos == <<b.x, b.y>>
        disp_br == <<bottom_right[1] - blob_pos[1], bottom_right[2] - blob_pos[2]>>
        disp_bl == <<bottom_left[1] - blob_pos[1], bottom_left[2] - blob_pos[2]>>
    IN [b EXCEPT !.distance_left = Dot(disp_bl, n_left),
                 !.distance_right = Dot(disp_br, n_right)]

\* lines 331-337, the distances in wall units
Distances(b) ==
    LET blob_pos == <<b.x, b.y>>
        disp_br == <<bottom_right[1] - blob_pos[1], bottom_right[2] - blob_pos[2]>>
        disp_bl == <<bottom_left[1] - blob_pos[1], bottom_left[2] - blob_pos[2]>>
    IN [b EXCEPT !.distance_left = Abs(Dot(disp_bl, n_left)),
                 !.distance_right = Abs(Dot(disp_br, n_right))]

\* faulty variant: the test blob.vy < 0 left out
HitsLeftAnyVy(b) == b.distance_left <= WallUnits(b.radius)

HitsLeft(b) == b.distance_left <= WallUnits(b.radius) /\ b.vy < 0

HitsRight(b) == b.distance_right <= WallUnits(b.radius) /\ b.vy < 0

\* faulty variant: the right wall tested with `if` instead of `elif`
\* (line 355), so that both responses can run in one call
HandleWallCollisionBothWalls(b0) ==
    LET b == Distances(b0)
        l == IF HitsLeft(b)
             THEN [Project(b, left_vector) EXCEPT !.collided_left = TRUE, !.collided_right = FALSE]
             ELSE [b EXCEPT !.collided_left = FALSE, !.collided_right = FALSE]
    IN IF HitsRight(l)
         THEN [Project(l, right_vector) EXCEPT !.collided_right = TRUE]
       ELSE l

\* handle_wall_collision together with the assignment of its result (line 187)
handle_wall_collision(b0) ==
    LET b == Distances(b0)
    IN IF HitsLeft(b)
         THEN [Project(b, left_vector) EXCEPT !.collided_left = TRUE, !.collided_right = FALSE]
       ELSE IF HitsRight(b)
         THEN [Project(b, right_vector) EXCEPT !.collided_left = FALSE, !.collided_right = TRUE]
       ELSE [b EXCEPT !.collided_left = FALSE, !.collided_right = FALSE]

\* line 190
MoveX(b) == [b EXCEPT !.x = b.x + b.vx]

\* faulty variant: x += vx taken before the collision response (line 190
\* ahead of line 187)
BlobUpdateMoveFirst(b, temps) ==
    handle_wall_collision(MoveX(Clamp(Integrate(HeatExchange(b, temps)))))

\* Blob.update
BlobUpdate(b, temps) ==
    MoveX(handle_wall_collision(Clamp(Integrate(HeatExchange(b, temps)))))

\* the stages of one Blob.update call, kept as history
Stages(i, b, temps) ==
    [op |-> "update", blob |-> i, pre |-> b, profile |-> temps,
     solvent_index |-> SampleIndex(b.y),
     heated |-> HeatExchange(b, temps),
     integrated |-> Integrate(HeatExchange(b, temps)),
     clamped |-> Clamp(Integrate(HeatExchange(b, temps))),
     collided |-> handle_wall_collision(Clamp(Integrate(HeatExchange(b, temps))))]

NoBlob == BlobInit(0, 0, 0)

NoStages == [op |-> "none", blob |-> 0, pre |-> NoBlob, profile |-> <<>>,
             solvent_index |-> 0,
             heated |-> NoBlob, integrated |-> NoBlob, clamped |-> NoBlob,
             collided |-> NoBlob]

NoProbe == [op |-> "none", y |-> 0, index |-> 0, raised |-> FALSE, value |-> 0]

----------------------------------------------------------------------------
(* main *)

\* line 403: blob_y for the random draw j / SpawnYParts of [0, spawn_range]
SpawnY(j) ==
    (lamp_y + lamp_height - blob_radius) * Scale - RoundDiv(spawn_range * Scale * j, SpawnYParts)

\* lines 406-410
left_x_bound(blob_y) ==
    top_left[1] + RoundDiv((blob_y - top_left[2]) * left_vector[1], left_vector[2])
right_x_bound(blob_y) ==
    top_right[1] + RoundDiv((blob_y - top_right[2]) * right_vector[1], right_vector[2])
left_offset == RoundDiv(WallUnits(blob_radius) * Abs(n_left[1]), norm_sq)
right_offset == RoundDiv(WallUnits(blob_radius) * Abs(n_right[1]), norm_sq)

\* line 413: blob_x for the random draw i / SpawnXParts of the interval
SpawnX(blob_y, i) ==
    LET lo == left_x_bound(blob_y) + left_offset
        hi == right_x_bound(blob_y) - right_offset
    IN lo + RoundDiv((hi - lo) * i, SpawnXParts)

Spawns ==
    { BlobInit(SpawnX(SpawnY(j), i), SpawnY(j), blob_radius) :
        i \in 0..SpawnXParts, j \in 0..SpawnYParts }

\* line 417
InitialProfile ==
    [j \in 1..steps |-> top_temp + RoundDiv((bottom_temp - top_temp) * (j - 1), steps)]

Init ==
    /\ event = NoEvent /\ TttAbsent /\ WaveAbsent
    /\ blobs \in [1..num_blobs -> Spawns]
    /\ temperature_profile = InitialProfile
    /\ passed_profile = <<>>
    /\ pc = "events"
    /\ k = 1
    /\ running = TRUE
    /\ ticks = 0
    /\ last = NoStages
    /\ probe = NoProbe

\* lines 421-423: the event loop; quit is whether a QUIT event was queued
PollEvents ==
    /\ UNCHANGED <<event, ttt_vars, wave_vars>>
    /\ pc = "events"
    /\ ticks < MaxTicks
    /\ \E quit \in BOOLEAN : running' = (running /\ ~quit)
    /\ pc' = "step"
    /\ UNCHANGED <<temperature_profile, passed_profile, blobs, k, ticks, last, probe>>

\* line 425
Step ==
    /\ UNCHANGED <<event, ttt_vars, wave_vars>>
    /\ pc = "step"
    /\ LET r == update_temperature_profile(temperature_profile)
       IN /\ temperature_profile' = r.result
          /\ passed_profile' = r.arg
    /\ pc' = "update"
    /\ k' = 1
    /\ UNCHANGED <<blobs, running, ticks, last, probe>>

\* faulty variant: the blob writes its new temperature into the sample it read
ProfileAfterUpdateHeated(b, temps) ==
    IF temps = <<>> THEN temps
    ELSE [temps EXCEPT ![SampleIndex(b.y) + 1] = HeatExchange(b, temps).temperature]

\* the list passed to blob.update as the call leaves it: lines 162 and 274
\* subscript it, and no line of update, get_temperature_at_y or
\* handle_wall_collision assigns to it
ProfileAfterUpdate(b, temps) == temps

\* faulty variant: the blobs share one temperature attribute (that of the
\* first blob), so that an update reads what another update wrote
UpdateAtShared(bs, i, temps) ==
    [bs EXCEPT ![i] = BlobUpdate([bs[i] EXCEPT !.temperature = bs[1].temperature], temps)]

\* line 439: blob.update(temperature_profile) for the blob at position i of the
\* list; the call writes the attributes of that blob only
UpdateAt(bs, i, temps) ==
    [bs EXCEPT ![i] = BlobUpdate(bs[i], temps)]

\* lines 438-439, one iteration of the for loop; after the last one, line 420
UpdateBlob ==
    /\ UNCHANGED <<event, ttt_vars, wave_vars>>
    /\ pc = "update"
    /\ blobs' = UpdateAt(blobs, k, temperature_profile)
    /\ last' = Stages(k, blobs[k], temperature_profile)
    /\ IF k < num_blobs
         THEN /\ k' = k + 1
              /\ UNCHANGED <<pc, ticks>>
         ELSE /\ k' = 1
              /\ ticks' = ticks + 1
              /\ pc' = IF running THEN "events" ELSE "done"
    /\ temperature_profile' = ProfileAfterUpdate(blobs[k], temperature_profile)
    /\ UNCHANGED <<passed_profile, running, probe>>

Next == PollEvents \/ Step \/ UpdateBlob

Spec == Init /\ [][Next]_vars

----------------------------------------------------------------------------
(* update_temperature_profile applied to arbitrary profiles *)

MaxLen == 4
FieldLevels == 3
MaxFieldSteps == 3

FieldTemps == { (bottom_temp \div 3) * t : t \in 0..FieldLevels }

FieldProfiles == UNION { [1..n -> FieldTemps] : n \in 1..MaxLen }

\* the profiles of the lamp's own length that hold one temperature down to
\* sample j and the other below it
LampStepProfiles ==
    { [i \in 1..steps |-> IF i <= j THEN a ELSE b] :
        j \in {1, steps \div 2, steps - 1},
        a \in {top_temp, bottom_temp}, b \in {top_temp, bottom_temp} }

FieldInit ==
    /\ event = NoEvent /\ TttAbsent /\ WaveAbsent
    /\ temperature_profile \in FieldProfiles \cup LampStepProfiles
    /\ passed_profile = <<>>
    /\ blobs = <<>>
    /\ pc = "field"
    /\ k = 1
    /\ running = TRUE
    /\ ticks = 0
    /\ last = NoStages
    /\ probe = [op |-> "initial", profile |-> temperature_profile]

\* max over the interior samples of |T[i+1] - 2*T[i] + T[i-1]|
MaxSecondDifference(temps) ==
    LET S == { Abs(temps[i + 1] - 2 * temps[i] + temps[i - 1]) : i \in 2..(Len(temps) - 1) }
    IN IF S = {} THEN 0 ELSE CHOOSE m \in S : \A d \in S : d <= m

\* one temperature down to some sample, another one below it
IsStepFunction(temps) ==
    /\ Len(temps) >= 3
    /\ temps[1] # temps[Len(temps)]
    /\ \E j \in 1..(Len(temps) - 1) :
          \A i \in 1..Len(temps) :
              temps[i] = IF i <= j THEN temps[1] ELSE temps[Len(temps)]

\* a step function that has the boundary temperatures at its two ends
IsBoundaryStepFunction(temps) ==
    /\ IsStepFunction(temps)
    /\ temps[1] = top_temp
    /\ temps[Len(temps)] = bottom_temp

\* one degree: the maximum second difference down to which the short step
\* functions are smoothed
SmoothFloor == 1 * Scale

\* the run started from a step function of at most MaxLen samples with the
\* boundary temperatures at its ends, and the maximum second difference has
\* not yet fallen below SmoothFloor
StillSmoothing ==
    /\ Len(probe.profile) <= MaxLen
    /\ IsBoundaryStepFunction(probe.profile)
    /\ MaxSecondDifference(temperature_profile) >= SmoothFloor

\* temps = update_temperature_profile(temps)
FieldStep ==
    /\ UNCHANGED <<event, ttt_vars, wave_vars>>
    /\ pc = "field"
    /\ ticks < MaxFieldSteps \/ StillSmoothing
    /\ LET r == update_temperature_profile(temperature_profile)
       IN /\ temperature_profile' = r.result
          /\ passed_profile' = r.arg
    /\ ticks' = ticks + 1
    /\ UNCHANGED <<blobs, pc, k, running, last, probe>>

FieldNext == FieldStep

FieldSpec == FieldInit /\ [][FieldNext]_vars

----------------------------------------------------------------------------
(* Blob.update applied to a blob in an arbitrary state *)

MaxSpeed == 1
MaxCalls == 2

CallXs == { lamp_x * Scale, lamp_x * Scale + 27 * Scale, (width \div 2) * Scale,
            (lamp_x + lamp_bottom_width) * Scale - 27 * Scale,
            lamp_x * Scale + 2251 * (Scale \div 100) }
CallYs == { (lamp_y - 50) * Scale, (lamp_y + 30) * Scale, (lamp_y + lamp_height \div 2) * Scale,
            (lamp_y + lamp_height - 10) * Scale, (lamp_y + lamp_height + 50) * Scale }
CallVs == { v * Scale : v \in (-MaxSpeed)..MaxSpeed }
CallTemps == { top_temp, bottom_temp }
CallRadii == { blob_radius, lamp_height \div 3, lamp_height \div 2 }

CallBlobs ==
    { [BlobInit(x, y, r) EXCEPT !.vx = vx, !.vy = vy, !.temperature = t,
                                !.density = calculate_density(t)] :
        x \in CallXs, y \in CallYs, r \in CallRadii, vx \in CallVs, vy \in CallVs,
        t \in CallTemps }

UpdateInit ==
    /\ event = NoEvent /\ TttAbsent /\ WaveAbsent
    /\ blobs \in { <<b>> : b \in CallBlobs }
    /\ temperature_profile = InitialProfile
    /\ passed_profile = <<>>
    /\ pc = "call"
    /\ k = 1
    /\ running = TRUE
    /\ ticks = 0
    /\ last = NoStages
    /\ probe = NoProbe

\* blob.update(temperature_profile)
CallUpdate ==
    /\ UNCHANGED <<event, ttt_vars, wave_vars>>
    /\ pc = "call"
    /\ ticks < MaxCalls
    /\ blobs' = [blobs EXCEPT ![1] = BlobUpdate(blobs[1], temperature_profile)]
    /\ last' = Stages(1, blobs[1], temperature_profile)
    /\ ticks' = ticks + 1
    /\ temperature_profile' = ProfileAfterUpdate(blobs[1], temperature_profile)
    /\ UNCHANGED <<passed_profile, pc, k, running, probe>>

UpdateNext == CallUpdate

UpdateSpec == UpdateInit /\ [][UpdateNext]_vars

----------------------------------------------------------------------------
(* get_temperature_at_y applied to an arbitrary y *)

SampleMargin == 40
SampleParts == 4

\* every 1/SampleParts of a pixel from SampleMargin/SampleParts pixels above the
\* lamp to as many below it
SampleYs ==
    { lamp_y * Scale + j * (Scale \div SampleParts) :
        j \in (-SampleMargin)..(lamp_height * SampleParts + SampleMargin) }

SampleInit ==
    /\ event = NoEvent /\ TttAbsent /\ WaveAbsent
    /\ probe \in { [NoProbe EXCEPT !.op = "pending", !.y = y] : y \in SampleYs }
    /\ temperature_profile = InitialProfile
    /\ passed_profile = <<>>
    /\ blobs = <<>>
    /\ pc = "sample"
    /\ k = 1
    /\ running = TRUE
    /\ ticks = 0
    /\ last = NoStages

\* get_temperature_at_y(y, temperature_profile)
CallSample ==
    /\ UNCHANGED <<event, ttt_vars, wave_vars>>
    /\ pc = "sample"
    /\ probe.op = "pending"
    /\ probe' = [op |-> "sample", y |-> probe.y,
                 index |-> SampleIndex(probe.y),
                 raised |-> IndexRaises(temperature_profile, SampleIndex(probe.y)),
                 value |-> get_temperature_at_y(probe.y, temperature_profile)]
    /\ ticks' = ticks + 1
    /\ UNCHANGED <<temperature_profile, passed_profile, blobs, pc, k, running, last>>

SampleNext == CallSample

SampleSpec == SampleInit /\ [][SampleNext]_vars

----------------------------------------------------------------------------
(* calculate_density applied to two temperatures; probe holds the pair and
   the two densities *)

MaxDensityTemp == 100

\* whole degrees from MaxDensityTemp below zero to MaxDensityTemp above
DensityTemps == { t * Scale : t \in (-MaxDensityTemp)..MaxDensityTemp }

\* how far apart the two temperatures are: 0.01, 0.5, 1 and 40 degrees
DensityGaps == { Scale \div 100, Scale \div 2, Scale, 40 * Scale }

DensityInit ==
    /\ event = NoEvent /\ TttAbsent /\ WaveAbsent
    /\ probe \in { [op |-> "pending", t1 |-> t, t2 |-> t + gap, d1 |-> 0, d2 |-> 0] :
                    t \in DensityTemps, gap \in DensityGaps }
    /\ pc = "density"
    /\ temperature_profile = <<>>
    /\ passed_profile = <<>>
    /\ blobs = <<>>
    /\ k = 1
    /\ running = TRUE
    /\ ticks = 0
    /\ last = NoStages

\* calculate_density at temperature t1 and at temperature t2
CallDensity ==
    /\ UNCHANGED <<event, ttt_vars, wave_vars>>
    /\ pc = "density"
    /\ probe.op = "pending"
    /\ probe' = [probe EXCEPT !.op = "density",
                              !.d1 = calculate_density(probe.t1),
                              !.d2 = calculate_density(probe.t2)]
    /\ UNCHANGED <<temperature_profile, passed_profile, blobs, pc, k, running, ticks, last>>

DensityNext == CallDensity

DensitySpec == DensityInit /\ [][DensityNext]_vars

----------------------------------------------------------------------------
(* the loop of main run on one blob that starts on the lamp's floor *)

RiseTicks == 500

\* y = lamp_y + lamp_height - radius, x drawn as line 413 draws it
RiseSpawns ==
    { BlobInit(SpawnX(SpawnY(0), i), SpawnY(0), blob_radius) : i \in 0..SpawnXParts }

RiseInit ==
    /\ event = NoEvent /\ TttAbsent /\ WaveAbsent
    /\ blobs \in [1..1 -> RiseSpawns]
    /\ temperature_profile = InitialProfile
    /\ passed_profile = <<>>
    /\ pc = "step"
    /\ k = 1
    /\ running = TRUE
    /\ ticks = 0
    /\ last = NoStages
    /\ probe = NoProbe

\* line 425
RiseStep ==
    /\ UNCHANGED <<event, ttt_vars, wave_vars>>
    /\ pc = "step"
    /\ ticks < RiseTicks
    /\ LET r == update_temperature_profile(temperature_profile)
       IN /\ temperature_profile' = r.result
          /\ passed_profile' = r.arg
    /\ pc' = "update"
    /\ UNCHANGED <<blobs, k, running, ticks, last, probe>>

\* lines 438-439 for the one blob
RiseUpdate ==
    /\ UNCHANGED <<event, ttt_vars, wave_vars>>
    /\ pc = "update"
    /\ blobs' = UpdateAt(blobs, 1, temperature_profile)
    /\ last' = Stages(1, blobs[1], temperature_profile)
    /\ ticks' = ticks + 1
    /\ pc' = "step"
    /\ temperature_profile' = ProfileAfterUpdate(blobs[1], temperature_profile)
    /\ UNCHANGED <<passed_profile, k, running, probe>>

RiseNext == RiseStep \/ RiseUpdate

RiseSpec == RiseInit /\ [][RiseNext]_vars

----------------------------------------------------------------------------
(* the module and main started with other lamp dimensions than those of
   lines 10 and 12; probe holds the dimensions and what line 66 made of them *)

MaxConfigTicks == 5
ConfigParts == 2

ConfigWidths == { (lamp_bottom_width \div ConfigParts) * i : i \in -ConfigParts..ConfigParts }
ConfigHeights == { (lamp_height \div ConfigParts) * i : i \in -ConfigParts..ConfigParts }

\* line 65 times 10: [(lamp_top_width - lamp_bottom_width) / 2, lamp_height]
\* with lamp_top_width = 0.4 * lamp_bottom_width (line 11)
ConfigLeftRaw(w, h) == <<-3 * w, 10 * h>>

\* line 67 times 10
ConfigRightRaw(w, h) == <<3 * w, 10 * h>>

\* lines 66 and 68: dividing by np.linalg.norm raises nothing; a zero norm
\* leaves nan in both components of the vector and of its normal
ConfigVectorsDefined(w, h) ==
    /\ Dot(ConfigLeftRaw(w, h), ConfigLeftRaw(w, h)) # 0
    /\ Dot(ConfigRightRaw(w, h), ConfigRightRaw(w, h)) # 0

\* line 79
ConfigSteps(h) == h

\* line 270 reached from line 412: (y - lamp_y) / lamp_height raises
\* ZeroDivisionError when lamp_height is 0; the numpy divisions of lines
\* 406-409 raise nothing
SpawnRaises(h) == h = 0

\* line 259 reached from line 425: new_temps[-1] raises IndexError on the
\* empty profile that range(steps) of line 416 gives when steps < 1
StepRaises(h) == ConfigSteps(h) < 1

ConfigInit ==
    /\ event = NoEvent /\ TttAbsent /\ WaveAbsent
    /\ probe \in [op : {"configure"}, lamp_bottom_width : ConfigWidths,
                   lamp_height : ConfigHeights, vectors_defined : {TRUE}]
    /\ pc = "module"
    /\ ticks = 0
    /\ temperature_profile = <<>>
    /\ passed_profile = <<>>
    /\ blobs = <<>>
    /\ k = 1
    /\ running = TRUE
    /\ last = NoStages

\* lines 1-101: the module body; no statement of it tests the dimensions
LoadModule ==
    /\ UNCHANGED <<event, ttt_vars, wave_vars>>
    /\ pc = "module"
    /\ probe' = [probe EXCEPT !.vectors_defined =
                    ConfigVectorsDefined(probe.lamp_bottom_width, probe.lamp_height)]
    /\ pc' = "main"
    /\ UNCHANGED <<temperature_profile, passed_profile, blobs, k, running, ticks, last>>

\* lines 390-416: main up to the loop
SpawnBlobs ==
    /\ UNCHANGED <<event, ttt_vars, wave_vars>>
    /\ pc = "main"
    /\ pc' = IF SpawnRaises(probe.lamp_height) THEN "raised" ELSE "loop"
    /\ UNCHANGED <<temperature_profile, passed_profile, blobs, k, running, ticks, last, probe>>

\* lines 419-442: one pass of the loop
ConfigTick ==
    /\ UNCHANGED <<event, ttt_vars, wave_vars>>
    /\ pc = "loop"
    /\ ticks < MaxConfigTicks
    /\ IF StepRaises(probe.lamp_height)
         THEN pc' = "raised" /\ ticks' = ticks
         ELSE pc' = "loop" /\ ticks' = ticks + 1
    /\ UNCHANGED <<temperature_profile, passed_profile, blobs, k, running, last, probe>>

ConfigNext == LoadModule \/ SpawnBlobs \/ ConfigTick

ConfigSpec == ConfigInit /\ [][ConfigNext]_vars

----------------------------------------------------------------------------
(* Projects/Tic-Tac-Toe.py *)

WIDTH == 600
HEIGHT == 700
BOARD_ROWS == 3
BOARD_COLS == 3
SQUARE_SIZE == WIDTH \div BOARD_COLS
BUTTON_HEIGHT == 50
BUTTON_WIDTH == 200

\* the variables of Lava Lamp.py while another program runs
LampAbsent ==
    /\ temperature_profile = <<>>
    /\ passed_profile = <<>>
    /\ blobs = <<>>
    /\ k = 1
    /\ ticks = 0
    /\ last = NoStages
    /\ probe = NoProbe

\* lines 36 and 122: "None" stands for None
EmptyBoard == [row \in 0..(BOARD_ROWS - 1) |-> [col \in 0..(BOARD_COLS - 1) |-> "None"]]

\* lines 103-104: the Rect of the reset button as left, top, width, height
reset_button == <<(WIDTH - BUTTON_WIDTH) \div 2, HEIGHT - BUTTON_HEIGHT - 20,
                  BUTTON_WIDTH, BUTTON_HEIGHT>>

\* pygame.Rect.collidepoint: the right and the bottom edge are outside
collidepoint(rect, pos) ==
    /\ rect[1] <= pos[1] /\ pos[1] < rect[1] + rect[3]
    /\ rect[2] <= pos[2] /\ pos[2] < rect[2] + rect[4]

\* lines 76-93
check_win(b, p) ==
    \/ \E row \in 0..(BOARD_ROWS - 1) : \A col \in 0..(BOARD_COLS - 1) : b[row][col] = p
    \/ \E col \in 0..(BOARD_COLS - 1) : \A row \in 0..(BOARD_ROWS - 1) : b[row][col] = p
    \/ \A i \in 0..(BOARD_ROWS - 1) : b[i][i] = p
    \/ \A i \in 0..(BOARD_ROWS - 1) : b[i][BOARD_ROWS - 1 - i] = p

\* lines 97-98
is_board_full(b) ==
    \A row \in 0..(BOARD_ROWS - 1) : \A col \in 0..(BOARD_COLS - 1) : b[row][col] # "None"

\* f"Player {player}'s turn" and f"Player {player} wins!"
TurnText(p) == IF p = "X" THEN "Player X's turn" ELSE "Player O's turn"
WinsText(p) == IF p = "X" THEN "Player X wins!" ELSE "Player O wins!"

\* where the mouse can be pressed: the edges of the squares, of the window
\* and of the reset button
ClickXs == { 0, SQUARE_SIZE, WIDTH - 1 }
ClickYs == { 0, SQUARE_SIZE, WIDTH - 1, WIDTH,
             reset_button[2], reset_button[2] + BUTTON_HEIGHT }

\* lines 36-38 and 133-135
TttInit ==
    /\ LampAbsent /\ WaveAbsent
    /\ pc = "loop"
    /\ running = TRUE
    /\ event = NoEvent
    /\ board = EmptyBoard
    /\ player = "X"
    /\ game_over = FALSE
    /\ status_text = TurnText("X")

\* lines 120-127: the globals and the returned text
reset_game ==
    [board |-> EmptyBoard, game_over |-> FALSE, player |-> "X",
     status_text |-> TurnText("X")]

\* faulty variant: the test board[clicked_row][clicked_col] is None left out
BoardClickNoTest(pos) ==
    LET clicked_row == pos[2] \div SQUARE_SIZE
        clicked_col == pos[1] \div SQUARE_SIZE
        placed == [board EXCEPT ![clicked_row][clicked_col] = player]
    IN IF check_win(placed, player)
         THEN [board |-> placed, game_over |-> TRUE, player |-> player,
               status_text |-> WinsText(player)]
       ELSE IF is_board_full(placed)
         THEN [board |-> placed, game_over |-> TRUE, player |-> player,
               status_text |-> "It's a draw!"]
       ELSE [board |-> placed, game_over |-> FALSE,
             player |-> IF player = "X" THEN "O" ELSE "X",
             status_text |-> TurnText(IF player = "X" THEN "O" ELSE "X")]

\* lines 154-169: a click at pos with not game_over and mouseY < WIDTH
BoardClick(pos) ==
    LET clicked_row == pos[2] \div SQUARE_SIZE
        clicked_col == pos[1] \div SQUARE_SIZE
        placed == [board EXCEPT ![clicked_row][clicked_col] = player]
    IN IF board[clicked_row][clicked_col] # "None"
         THEN [board |-> board, game_over |-> game_over, player |-> player,
               status_text |-> status_text]
       ELSE IF check_win(placed, player)
         THEN [board |-> placed, game_over |-> TRUE, player |-> player,
               status_text |-> WinsText(player)]
       ELSE IF is_board_full(placed)
         THEN [board |-> placed, game_over |-> TRUE, player |-> player,
               status_text |-> "It's a draw!"]
       ELSE [board |-> placed, game_over |-> FALSE,
             player |-> IF player = "X" THEN "O" ELSE "X",
             status_text |-> TurnText(IF player = "X" THEN "O" ELSE "X")]

\* faulty variant: the test not game_over left out of line 153
BoardOpenAfterEnd(pos) == pos[2] < WIDTH

\* line 153
BoardOpen(pos) == ~game_over /\ pos[2] < WIDTH

\* lines 143-169: one MOUSEBUTTONDOWN event
TttClick ==
    /\ pc = "loop"
    /\ \E mouseX \in ClickXs, mouseY \in ClickYs :
          LET pos == <<mouseX, mouseY>>
              r == IF collidepoint(reset_button, pos) THEN reset_game
                   ELSE IF BoardOpen(pos) THEN BoardClick(pos)
                   ELSE [board |-> board, game_over |-> game_over, player |-> player,
                         status_text |-> status_text]
          IN /\ event' = [type |-> "MOUSEBUTTONDOWN", pos |-> pos]
             /\ board' = r.board
             /\ game_over' = r.game_over
             /\ player' = r.player
             /\ status_text' = r.status_text
    /\ UNCHANGED <<lamp_vars, wave_vars>>

\* lines 139-141
TttQuit ==
    /\ pc = "loop"
    /\ event' = [type |-> "QUIT"]
    /\ pc' = "exited"
    /\ running' = FALSE
    /\ UNCHANGED <<temperature_profile, passed_profile, blobs, k, ticks, last, probe,
                   ttt_vars, wave_vars>>

TttNext == TttClick \/ TttQuit

TttSpec == TttInit /\ [][TttNext]_vars

----------------------------------------------------------------------------
(* Wave Equation Visualizer.py: the event loop and the flags it sets.  The  *)
(* arrays u_vals and v_vals of the simulation are not part of the state: no *)
(* branch of the event handling reads them.                                 *)

\* width and height of this program's window (line 13)
wave_width == 800
wave_height == 600
ui_panel_height == 150
ui_margin == 10

wave_types == <<"Zero", "Sine", "Cosine", "Exponential", "Dirac Delta">>

\* rects as <<left, top, width, height>>; Rect.right is left + width
RectRight(rect) == rect[1] + rect[3]
start_pause_button_rect == <<ui_margin, wave_height - ui_panel_height + ui_margin + 20, 100, 30>>
stop_button_rect == <<RectRight(start_pause_button_rect) + ui_margin, start_pause_button_rect[2], 100, 30>>
disp_dropdown_rect == <<RectRight(stop_button_rect) + ui_margin, stop_button_rect[2], 150, 30>>
vel_dropdown_rect == <<RectRight(disp_dropdown_rect) + ui_margin, disp_dropdown_rect[2], 150, 30>>
amplitude_textbox_rect == <<RectRight(vel_dropdown_rect) + ui_margin, vel_dropdown_rect[2], 60, 30>>
wavenumber_textbox_rect ==
    <<RectRight(amplitude_textbox_rect) + ui_margin + 20, amplitude_textbox_rect[2], 60, 30>>

\* bound: the longest text a textbox is let grow to
MaxText == 3

\* bound: the number of events handled in one run; ticks counts them
MaxWaveEvents == 8

\* amplitude and wavenumber are carried in units of 1 / ParseScale, which is
\* exact for every text of at most MaxText characters
ParseScale == 10 ^ MaxText

DigitChars == <<"0", "1", "2", "3", "4", "5", "6", "7", "8", "9">>
IsDigit(c) == \E d \in 1..Len(DigitChars) : DigitChars[d] = c
DigitValue(c) == (CHOOSE d \in 1..Len(DigitChars) : DigitChars[d] = c) - 1

\* the text without a leading sign
Unsigned(s) == IF s # <<>> /\ s[1] \in { "+", "-" } THEN Tail(s) ELSE s

\* float(s) succeeds, for texts of digits, signs and dots: an optional sign,
\* then digits with at most one dot among them and at least one digit.
\* Every other character of the keys modelled makes float raise ValueError.
FloatValid(s) ==
    LET b == Unsigned(s)
    IN  /\ \A i \in 1..Len(b) : IsDigit(b[i]) \/ b[i] = "."
        /\ Cardinality({ i \in 1..Len(b) : b[i] = "." }) <= 1
        /\ \E i \in 1..Len(b) : IsDigit(b[i])

RECURSIVE DigitsValue(_)
DigitsValue(ds) ==
    IF ds = <<>> THEN 0
    ELSE DigitsValue(SubSeq(ds, 1, Len(ds) - 1)) * 10 + DigitValue(ds[Len(ds)])

\* float(s) of a valid text, in units of 1 / ParseScale
FloatValue(s) ==
    LET b == Unsigned(s)
        dot == IF \E i \in 1..Len(b) : b[i] = "."
               THEN CHOOSE i \in 1..Len(b) : b[i] = "."
               ELSE Len(b) + 1
        whole == SubSeq(b, 1, dot - 1)
        frac == SubSeq(b, dot + 1, Len(b))
        magnitude == DigitsValue(whole) * ParseScale
                     + DigitsValue(frac) * 10 ^ (MaxText - Len(frac))
    IN  IF s # <<>> /\ s[1] = "-" THEN -magnitude ELSE magnitude

\* str(1.0)
DefaultText == <<"1", ".", "0">>

\* initialize_wave: the value returned and the globals it leaves; amplitude
\* is assigned before float of the wavenumber text can raise
initialize_wave ==
    IF ~FloatValid(text_inputs.amplitude)
    THEN [ok |-> FALSE, amplitude |-> amplitude, wavenumber |-> wavenumber]
    ELSE IF ~FloatValid(text_inputs.wavenumber)
    THEN [ok |-> FALSE, amplitude |-> FloatValue(text_inputs.amplitude),
          wavenumber |-> wavenumber]
    ELSE [ok |-> FloatValue(text_inputs.wavenumber) > 0,
          amplitude |-> FloatValue(text_inputs.amplitude),
          wavenumber |-> FloatValue(text_inputs.wavenumber)]

\* wave_types[(i + 1) % len(wave_types)] for i = wave_types.index(t)
NextWaveType(t) ==
    LET i == (CHOOSE j \in 1..Len(wave_types) : wave_types[j] = t) - 1
    IN  wave_types[((i + 1) % Len(wave_types)) + 1]

\* the text on the start/pause button as draw_ui renders it
ButtonLabel == IF paused THEN "Start" ELSE "Pause"

\* mouse positions tried: the top left corner of each widget and one point
\* of the window outside all of them
WaveClicks ==
    { <<rect[1], rect[2]>> : rect \in { start_pause_button_rect, stop_button_rect,
                                        disp_dropdown_rect, vel_dropdown_rect,
                                        amplitude_textbox_rect, wavenumber_textbox_rect } }
    \cup { <<0, 0>> }

\* keys tried: Return, Backspace and one character key
WaveKeys ==
    { [key |-> "K_RETURN", unicode |-> ""], [key |-> "K_BACKSPACE", unicode |-> ""],
      [key |-> "K_0", unicode |-> "0"] }

WaveInit ==
    /\ LampAbsent /\ TttAbsent
    /\ pc = "loop"
    /\ running = TRUE
    /\ event = NoEvent
    /\ paused = TRUE
    /\ started = FALSE
    /\ selected_disp_type = wave_types[1]
    /\ selected_vel_type = wave_types[1]
    /\ active_input = "None"
    /\ text_inputs = [amplitude |-> DefaultText, wavenumber |-> DefaultText]
    /\ amplitude = ParseScale
    /\ wavenumber = ParseScale

\* lines 201-230: one MOUSEBUTTONDOWN event
WaveClick ==
    /\ pc = "loop"
    /\ ticks < MaxWaveEvents
    /\ ticks' = ticks + 1
    /\ \E pos \in WaveClicks :
        /\ event' = [type |-> "MOUSEBUTTONDOWN", pos |-> pos]
        /\ IF collidepoint(start_pause_button_rect, pos) /\ ~started
           THEN LET r == initialize_wave
                IN  /\ amplitude' = r.amplitude
                    /\ wavenumber' = r.wavenumber
                    /\ paused' = IF r.ok THEN ~paused ELSE paused
                    /\ started' = IF r.ok THEN TRUE ELSE started
                    /\ UNCHANGED <<selected_disp_type, selected_vel_type, active_input>>
           ELSE IF collidepoint(stop_button_rect, pos)
           THEN /\ paused' = TRUE
                /\ started' = FALSE
                /\ UNCHANGED <<selected_disp_type, selected_vel_type, active_input,
                               amplitude, wavenumber>>
           ELSE IF ~started
           THEN /\ selected_disp_type' =
                        IF collidepoint(disp_dropdown_rect, pos)
                        THEN NextWaveType(selected_disp_type) ELSE selected_disp_type
                /\ selected_vel_type' =
                        IF ~collidepoint(disp_dropdown_rect, pos)
                           /\ collidepoint(vel_dropdown_rect, pos)
                        THEN NextWaveType(selected_vel_type) ELSE selected_vel_type
                /\ active_input' =
                        IF collidepoint(disp_dropdown_rect, pos)
                           \/ collidepoint(vel_dropdown_rect, pos)
                        THEN active_input
                        ELSE IF collidepoint(amplitude_textbox_rect, pos) THEN "amplitude"
                        ELSE IF collidepoint(wavenumber_textbox_rect, pos) THEN "wavenumber"
                        ELSE active_input
                /\ UNCHANGED <<paused, started, amplitude, wavenumber>>
           ELSE UNCHANGED <<paused, started, selected_disp_type, selected_vel_type,
                            active_input, amplitude, wavenumber>>
    /\ UNCHANGED <<temperature_profile, passed_profile, blobs, pc, k, running, last, probe,
                   ttt_vars, text_inputs>>

\* lines 233-241: one KEYDOWN event; a character is appended while the text
\* is shorter than MaxText
WaveKey ==
    /\ pc = "loop"
    /\ ticks < MaxWaveEvents
    /\ ticks' = ticks + 1
    /\ \E key \in WaveKeys :
        /\ IF key.key \in { "K_RETURN", "K_BACKSPACE" } \/ active_input = "None"
           THEN TRUE
           ELSE Len(text_inputs[active_input]) < MaxText
        /\ event' = [type |-> "KEYDOWN", key |-> key.key, unicode |-> key.unicode]
        /\ IF active_input = "None"
           THEN UNCHANGED <<active_input, text_inputs>>
           ELSE IF key.key = "K_RETURN"
           THEN active_input' = "None" /\ UNCHANGED text_inputs
           ELSE IF key.key = "K_BACKSPACE"
           THEN /\ text_inputs' =
                    [text_inputs EXCEPT ![active_input] =
                        SubSeq(@, 1, Len(@) - 1)]
                /\ UNCHANGED active_input
           ELSE /\ text_inputs' =
                    [text_inputs EXCEPT ![active_input] = Append(@, key.unicode)]
                /\ UNCHANGED active_input
    /\ UNCHANGED <<temperature_profile, passed_profile, blobs, pc, k, running, last, probe,
                   ttt_vars, paused, started, selected_disp_type, selected_vel_type,
                   amplitude, wavenumber>>

\* lines 197-198: one QUIT event clears running and nothing else; the for
\* loop of line 196 goes on with the events that follow it in the batch
WaveQuit ==
    /\ pc = "loop"
    /\ ticks < MaxWaveEvents
    /\ ticks' = ticks + 1
    /\ event' = [type |-> "QUIT"]
    /\ running' = FALSE
    /\ UNCHANGED <<temperature_profile, passed_profile, blobs, pc, k, last, probe,
                   ttt_vars, wave_vars>>

\* lines 192 and 253-254: the batch is through and the test of the while
\* loop finds running False, which ends the loop and the program
WaveExit ==
    /\ pc = "loop"
    /\ ~running
    /\ pc' = "exited"
    /\ UNCHANGED <<temperature_profile, passed_profile, blobs, k, running, ticks, last, probe,
                   event, ttt_vars, wave_vars>>

WaveNext == WaveClick \/ WaveKey \/ WaveQuit \/ WaveExit

WaveSpec == WaveInit /\ [][WaveNext]_vars

----------------------------------------------------------------------------
(* Properties *)

Cross(v, w) == v[1] * w[2] - v[2] * w[1]

\* what one rounding of each velocity component can add to a cross product
\* with a wall direction
CrossTol == (Abs(left_vector[1]) + Abs(left_vector[2]) + 1) \div 2

\* the distance to a wall with its sign, in wall units: positive on the lamp's side
SignedLeft(b) == Dot(<<bottom_left[1] - b.x, bottom_left[2] - b.y>>, n_left)
SignedRight(b) == Dot(<<bottom_right[1] - b.x, bottom_right[2] - b.y>>, n_right)

InsideLamp(y) == lamp_y * Scale <= y /\ y <= (lamp_y + lamp_height) * Scale

\* the index nearest to the linear position of y, for y inside the lamp
NearestIndex(y) == (ScaledPosition(y - lamp_y * Scale) + Scale \div 2) \div Scale

ClampTriggered == last.integrated.y < min_y(last.integrated)
                    \/ last.integrated.y > max_y(last.integrated)

\* C1: after every call of update_temperature_profile on a profile of at
\* least two samples, the first sample is top_temp and the last is bottom_temp.
C1_BoundaryPinned ==
    (ticks >= 1 /\ Len(temperature_profile) >= 2)
        => /\ temperature_profile[1] = top_temp
           /\ temperature_profile[Len(temperature_profile)] = bottom_temp

\* C1 happens: a step was applied to a profile of at least three samples
\* whose two ends held other temperatures than the boundary ones.
C1_Witness ==
    /\ ticks >= 1
    /\ Len(passed_profile) >= 3
    /\ passed_profile[1] # top_temp
    /\ passed_profile[Len(passed_profile)] # bottom_temp
    /\ temperature_profile[1] = top_temp
    /\ temperature_profile[Len(temperature_profile)] = bottom_temp

\* C2: after Blob.update returns, a blob with 2 * radius <= lamp_height has
\* lamp_y + radius <= y <= lamp_y + lamp_height - radius, whatever its y and
\* vy were before the call.
C2_Containment ==
    (last.op = "update" /\ 2 * blobs[last.blob].radius <= lamp_height)
        => /\ min_y(blobs[last.blob]) <= blobs[last.blob].y
           /\ blobs[last.blob].y <= max_y(blobs[last.blob])

\* C2 happens: a blob that was below the allowed range and moving down is
\* inside the range after the update.
C2_Witness ==
    /\ last.op = "update"
    /\ last.pre.y > max_y(last.pre)
    /\ last.pre.vy > 0
    /\ blobs[last.blob].radius = blob_radius
    /\ blobs[last.blob].y = max_y(blobs[last.blob])

\* C3: after Blob.update returns, the blob's distance to the left wall and
\* to the right wall, measured on the lamp's side, is at least radius, less
\* one step's worth of motion and a hundredth of a pixel.
C3_WallNonPenetration ==
    \A i \in DOMAIN blobs :
        ticks >= 1 =>
            LET b == blobs[i]
                slack == (Abs(left_vector[1]) + Abs(left_vector[2])) * (Abs(b.vx) + Abs(b.vy))
                           + WallUnits(1) \div 100
            IN /\ SignedLeft(b) >= WallUnits(b.radius) - slack
               /\ SignedRight(b) >= WallUnits(b.radius) - slack

\* C4: a newly constructed blob has the temperature that the initial
\* profile holds at the index its y maps to.
C4_InitialTemperatureFromField ==
    \A i \in DOMAIN blobs :
        ticks = 0 =>
            blobs[i].temperature = GetItem(InitialProfile, SampleIndex(blobs[i].y))

\* C5 as stated: after the step, the list that was passed in holds the
\* advanced temperatures (the ones main now sees).
C5_MutatesInPlace ==
    pc = "update" => passed_profile = temperature_profile

\* C5 amended: the step leaves the list passed in as it was and returns
\* another list that holds the advanced temperatures.
C5_ReturnsNewList ==
    [][(pc = "step" /\ pc' = "update")
          => /\ passed_profile' = temperature_profile
             /\ temperature_profile' = NewTemps(temperature_profile)]_vars

\* C5 happens: a step returned temperatures that differ from the ones in the
\* list it was given.
C5_Witness ==
    /\ pc = "update"
    /\ Len(passed_profile) = steps
    /\ temperature_profile # passed_profile

\* C6 as stated: for y inside the lamp the call returns the sample at the
\* index nearest to the linear position.
C6_NearestIndex ==
    (probe.op = "sample" /\ InsideLamp(probe.y))
        => probe.value = temperature_profile[NearestIndex(probe.y) + 1]

\* C6 amended: for y inside the lamp the call returns the sample at the
\* index i with i <= (y - lamp_y) / lamp_height * (N - 1) < i + 1, the
\* linear position rounded down.
C6_FloorIndex ==
    (probe.op = "sample" /\ InsideLamp(probe.y))
        => /\ probe.index * Scale <= ScaledPosition(probe.y - lamp_y * Scale)
           /\ ScaledPosition(probe.y - lamp_y * Scale) < (probe.index + 1) * Scale
           /\ probe.value = temperature_profile[probe.index + 1]

\* C6 happens: a y inside the lamp whose linear position is nearer to the
\* next index than to the one the call used.
C6_Witness ==
    /\ probe.op = "sample"
    /\ InsideLamp(probe.y)
    /\ NearestIndex(probe.y) = probe.index + 1
    /\ probe.value = temperature_profile[probe.index + 1]

\* C7: for every y the index used lies in 0 .. N-1 and indexing the profile
\* of N samples does not raise.
C7_IndexClamped ==
    probe.op = "sample"
        => /\ 0 <= probe.index
           /\ probe.index <= Len(temperature_profile) - 1
           /\ ~probe.raised
           /\ probe.value = temperature_profile[probe.index + 1]

\* C7 happens: a y below the bottom of the lamp, whose unclamped index is
\* not an index of the profile, was sampled.
C7_Witness ==
    /\ probe.op = "sample"
    /\ probe.y > (lamp_y + lamp_height) * Scale
    /\ RawIndex(probe.y) >= Len(temperature_profile)
    /\ probe.index = steps - 1

\* C8: in every state every blob's density is
\* opaque_density_at_reference * (1 + coefficient_of_expansion * (temperature - reference_temperature))
\* of its current temperature, to the nearest density unit.
C8_DensityFromTemperature ==
    \A i \in DOMAIN blobs :
        LET b == blobs[i]
            exact == EosNum * (b.temperature - reference_temperature * Scale)
            stored == (b.density - opaque_density_at_reference * DensityScale) * EosDen
        IN 2 * Abs(stored - exact) <= EosDen

\* C8 happens: an update changed a blob's temperature and its density.
C8_Witness ==
    /\ last.op = "update"
    /\ pc \in {"update", "events"}
    /\ blobs[last.blob].temperature # last.pre.temperature
    /\ blobs[last.blob].density # last.pre.density

\* C9: whenever the vertical clamp triggers in Blob.update, vy is 0 right
\* after the clamp and still 0 when update returns.
C9_ClampStopsVy ==
    (last.op = "update" /\ ClampTriggered)
        => /\ last.clamped.vy = 0
           /\ blobs[last.blob].vy = 0

\* C9 happens: the clamp triggered on a blob that has a horizontal velocity
\* and is within radius of the left wall.
C9_Witness ==
    /\ last.op = "update"
    /\ ClampTriggered
    /\ last.pre.vy # 0
    /\ last.pre.vx # 0
    /\ last.collided.distance_left <= WallUnits(last.collided.radius)

\* C10: right after handle_wall_collision reports a collision with a wall,
\* the velocity is parallel to that wall: its cross product with the wall's
\* direction is 0 up to the rounding of the two components.
C10_VelocityParallel ==
    last.op = "update"
        => /\ last.collided.collided_left
                => Abs(Cross(<<last.collided.vx, last.collided.vy>>, left_vector)) <= CrossTol
           /\ last.collided.collided_right
                => Abs(Cross(<<last.collided.vx, last.collided.vy>>, right_vector)) <= CrossTol

\* C10 happens: a collision with the left wall of a blob whose velocity
\* before the collision was far from parallel to the wall.
C10_Witness ==
    /\ last.op = "update"
    /\ last.collided.collided_left
    /\ Abs(Cross(<<last.clamped.vx, last.clamped.vy>>, left_vector)) > Scale
    /\ last.collided.vy < 0


\* the two tests of handle_wall_collision on the blob it is given, with the
\* distance taken with its sign (Signed) and without it (Near)
SignedNearLeft(b) == SignedLeft(b) <= WallUnits(b.radius) /\ b.vy < 0
SignedNearRight(b) == SignedRight(b) <= WallUnits(b.radius) /\ b.vy < 0
NearLeft(b) == Abs(SignedLeft(b)) <= WallUnits(b.radius) /\ b.vy < 0
NearRight(b) == Abs(SignedRight(b)) <= WallUnits(b.radius) /\ b.vy < 0

\* C11 as stated: for each wall the response triggers whenever the signed
\* distance to that wall is <= radius and vy < 0, also for a centre beyond the
\* wall and, for the right wall, also when the left wall's test holds.
C11_SignedTrigger ==
    last.op = "update"
        => /\ SignedNearLeft(last.clamped) => last.collided.collided_left
           /\ SignedNearRight(last.clamped) => last.collided.collided_right

\* C11 amended: the left response triggers exactly when the distance without
\* its sign is <= radius and vy < 0, and the right response exactly when the
\* left one did not trigger and the same holds for the right wall.
C11_UnsignedTrigger ==
    last.op = "update"
        => /\ last.collided.collided_left <=> NearLeft(last.clamped)
           /\ last.collided.collided_right
                <=> (~NearLeft(last.clamped) /\ NearRight(last.clamped))

\* C11 happens: a blob moving up that is within its radius of both walls,
\* on the lamp's side of each, went through handle_wall_collision, and the
\* left response ran while the right one did not.
C11_Witness ==
    /\ last.op = "update"
    /\ NearLeft(last.clamped)
    /\ NearRight(last.clamped)
    /\ SignedLeft(last.clamped) > 0
    /\ SignedRight(last.clamped) > 0
    /\ last.collided.collided_left
    /\ ~last.collided.collided_right


\* C12: in every tick the field step is taken before any blob is updated (the
\* step itself touches no blob, and blobs change only between the step and the
\* end of the tick, while the profile stays put), and every blob updated in
\* the tick samples the profile that this tick's step produced from the
\* profile it was passed.
C12_StepBeforeUpdates ==
    [][/\ pc = "step" =>
            /\ pc' = "update"
            /\ k' = 1
            /\ blobs' = blobs
            /\ passed_profile' = temperature_profile
            /\ temperature_profile' = NewTemps(temperature_profile)
       /\ (blobs' # blobs \/ last' # last) =>
            /\ pc = "update"
            /\ temperature_profile' = temperature_profile
            /\ passed_profile' = passed_profile
            /\ last'.blob = k
            /\ last'.profile = NewTemps(passed_profile)
       /\ pc = "events" => pc' = "step" /\ blobs' = blobs
       /\ ticks' # ticks => k = num_blobs /\ pc = "update"]_vars

\* C12 witness: the last blob of the third tick has been updated with a
\* profile that differs from the one that tick's step was passed.
C12_Witness ==
    /\ last.op = "update"
    /\ last.blob = num_blobs
    /\ ticks = 3
    /\ last.profile = NewTemps(passed_profile)
    /\ last.profile # passed_profile


\* every order in which the blobs of the set S can be visited
Orders(S) ==
    { o \in [1..Cardinality(S) -> S] :
        \A i, j \in 1..Cardinality(S) : o[i] = o[j] => i = j }

RECURSIVE UpdateInOrder(_, _, _)
\* the blobs after the updates of the blobs listed in order, taken one by one
UpdateInOrder(bs, order, temps) ==
    IF order = <<>> THEN bs
    ELSE UpdateInOrder(UpdateAt(bs, Head(order), temps), Tail(order), temps)

\* C13: at any point of a tick's update loop, updating the blobs still to be
\* updated in any order gives every blob the same final state, namely
\* Blob.update applied to that blob's own state and the field; the blobs
\* already updated are left as they are.
C13_OrderIndependent ==
    pc = "update" =>
        \A order \in Orders(k..num_blobs) :
            UpdateInOrder(blobs, order, temperature_profile)
                = [i \in 1..num_blobs |->
                     IF i >= k THEN BlobUpdate(blobs[i], temperature_profile)
                     ELSE blobs[i]]

\* C13 witness: a tick's update loop is about to start with two blobs in
\* different states, each of which its update will change.
C13_Witness ==
    /\ pc = "update"
    /\ k = 1
    /\ ticks >= 1
    /\ blobs[1] # blobs[2]
    /\ \A i \in 1..num_blobs : BlobUpdate(blobs[i], temperature_profile) # blobs[i]
    /\ Cardinality(Orders(1..num_blobs)) > 1


\* C14: in every state of a run of main the profile has its steps entries (so
\* that the step's i - 1 and i + 1 are inside it), every blob's density is
\* non-zero, and the last Blob.update divided by a non-zero density and read
\* the profile at an index inside it.
C14_NoFailure ==
    /\ Len(temperature_profile) = steps
    /\ \A i \in 1..num_blobs : blobs[i].density # 0
    /\ last.op = "update" =>
          /\ last.heated.density # 0
          /\ last.profile # <<>>
          /\ ~IndexRaises(last.profile, last.solvent_index)
          /\ last.solvent_index \in 0..(Len(last.profile) - 1)

\* C14 witness: a blob that has left its spawn row has been updated: it read
\* the stepped profile and its density was recomputed to a new value before
\* the division.
C14_Witness ==
    /\ last.op = "update"
    /\ ticks >= 30
    /\ last.pre.y # SpawnY(0)
    /\ last.heated.density # last.pre.density
    /\ last.integrated.vy # last.pre.vy
    /\ ~IndexRaises(last.profile, last.solvent_index)


\* the container geometry is degenerate: a non-positive lamp height or width,
\* or a wall vector of zero length
Degenerate(w, h) == h <= 0 \/ w <= 0 \/ ~ConfigVectorsDefined(w, h)

\* C15: with a degenerate container geometry the simulation does not start:
\* no tick is ever executed.
C15_DegenerateRejected ==
    (probe.op = "configure" /\ Degenerate(probe.lamp_bottom_width, probe.lamp_height)) =>
        ticks = 0


\* C16: a blob of radius 25 spawned on the lamp's floor
\* (y = lamp_y + lamp_height - radius) with zero velocity is, after 500 ticks
\* of step-then-update, strictly above the height it was spawned at.
C16_BlobHasRisen ==
    (ticks = RiseTicks /\ pc = "step") => blobs[1].y < SpawnY(0)

\* C16 witness: the 500 ticks have run and the blob, which started on the
\* floor with zero velocity, is more than a quarter of the lamp's height above it.
C16_Witness ==
    /\ ticks = RiseTicks
    /\ pc = "step"
    /\ last.op = "update"
    /\ blobs[1].radius = blob_radius
    /\ blobs[1].y < SpawnY(0) - lamp_height * (Scale \div 4)


\* the blob of a Blob.update call had its centre on the lamp's side of the left
\* wall and a horizontal velocity into that wall, and at the collision test
\* it was within its radius of the wall and moving upward
DrivenIntoLeftWall(s) ==
    /\ s.op = "update"
    /\ SignedLeft(s.pre) >= 0
    /\ s.pre.vx < 0
    /\ NearLeft(s.clamped)

\* C17: a blob within its radius of the left wall that moves upward with a
\* horizontal velocity into the wall has its velocity turned parallel to the
\* wall in the same call, and its centre is not on the outer side of the left
\* wall after the horizontal integration of that call nor after that of the
\* next call.
C17_RedirectedAndContained ==
    [][/\ DrivenIntoLeftWall(last') =>
            /\ last'.collided.collided_left
            /\ Abs(Cross(<<last'.collided.vx, last'.collided.vy>>, left_vector)) <= CrossTol
            /\ SignedLeft(blobs'[1]) >= 0
       /\ DrivenIntoLeftWall(last) => SignedLeft(blobs'[1]) >= 0]_vars


C19_DensityStrictlyDecreasing ==
    (probe.op = "density" /\ probe.t1 < probe.t2) => probe.d1 > probe.d2

\* C19 witness: the densities of two temperatures a hundredth of a degree
\* apart have been computed, and they differ.
C19_Witness ==
    /\ probe.op = "density"
    /\ probe.t2 - probe.t1 = Scale \div 100
    /\ probe.t1 = bottom_temp
    /\ probe.d1 # probe.d2


\* C20: n_left points from the left wall into the lamp (positive x component),
\* n_right points from the right wall into the lamp (negative x component),
\* and each is perpendicular to the direction vector of its wall, in every
\* state of a run of main.
C20_NormalsPointInward ==
    /\ running \in BOOLEAN
    /\ n_left[1] > 0
    /\ n_right[1] < 0
    /\ Dot(n_left, left_vector) = 0
    /\ Dot(n_right, right_vector) = 0


\* C21: a Blob.update call (with the get_temperature_at_y and
\* handle_wall_collision calls inside it) leaves every sample of the profile
\* as it was, and the profile differs from one state to the next only across
\* the step of the loop.
C21_BlobsNeverWriteField ==
    [][/\ pc = "update" => temperature_profile' = temperature_profile
       /\ temperature_profile' # temperature_profile => pc = "step"]_vars

\* C21 witness: an update has just changed the first blob, in a tick later
\* than the first, and the profile is still the one the update was passed.
C21_Witness ==
    /\ last.op = "update"
    /\ last.blob = 1
    /\ pc = "update"
    /\ ticks >= 1
    /\ blobs[1] # last.pre
    /\ temperature_profile = last.profile
    /\ temperature_profile # InitialProfile


\* C22: after a call of update_temperature_profile every interior sample i is
\* old[i] + alpha * dt / dx^2 * (old[i+1] - 2 * old[i] + old[i-1]), to the
\* nearest temperature unit, with all three values taken from the profile
\* that was passed in.
C22_InteriorFromOldValues ==
    ticks >= 1 =>
        /\ Len(temperature_profile) = Len(passed_profile)
        /\ \A j \in 2..(Len(passed_profile) - 1) :
              LET d == passed_profile[j + 1] - 2 * passed_profile[j] + passed_profile[j - 1]
                  den == alpha_den * dt_den * dx * dx
                  num == alpha_num * dt_num
              IN 2 * Abs(den * (temperature_profile[j] - passed_profile[j]) - num * d) <= den

\* C22 witness: a call has changed two neighbouring interior samples, so that
\* the right one would have come out differently had it read the left one
\* after its change.
C22_Witness ==
    /\ ticks >= 1
    /\ Len(passed_profile) >= 4
    /\ \E j \in 3..(Len(passed_profile) - 1) :
          /\ temperature_profile[j - 1] # passed_profile[j - 1]
          /\ temperature_profile[j] # passed_profile[j]
          /\ passed_profile[j] + Diffuse(passed_profile[j + 1] - 2 * passed_profile[j]
                                          + temperature_profile[j - 1])
                # temperature_profile[j]


\* C23: what a Blob.update call leaves in the blob is what these steps give
\* in this order: the temperature advanced toward the profile sampled at the
\* y the blob had before the call; the density of that new temperature; vy
\* and then y advanced with that density; the vertical clamp; the wall
\* response on the clamped blob; and x advanced by the vx the wall response
\* left.
C23_UpdateOrder ==
    last.op = "update" =>
        LET pre == last.pre
            b == blobs[last.blob]
            solvent_temp == get_temperature_at_y(pre.y, last.profile)
            t == pre.temperature
                   + RoundDiv(heat_transfer_coefficient_num * (solvent_temp - pre.temperature),
                              heat_transfer_coefficient_den)
            rho == calculate_density(t)
            vy1 == pre.vy + VelocityGain(rho)
            y1 == pre.y + vy1
            y2 == IF y1 < min_y(pre) THEN min_y(pre)
                  ELSE IF y1 > max_y(pre) THEN max_y(pre) ELSE y1
            vy2 == IF y1 < min_y(pre) \/ y1 > max_y(pre) THEN 0 ELSE vy1
            c == handle_wall_collision([pre EXCEPT !.temperature = t, !.density = rho,
                                                   !.vy = vy2, !.y = y2])
        IN /\ b.temperature = t
           /\ b.density = rho
           /\ b.y = y2
           /\ b.vy = c.vy
           /\ b.vx = c.vx
           /\ b.x = pre.x + c.vx
           /\ b.collided_left = c.collided_left
           /\ b.collided_right = c.collided_right
           /\ b.distance_left = c.distance_left
           /\ b.distance_right = c.distance_right

\* C23 witness: a call in which the order shows: the blob moved to a y with
\* another sample index than the one it was heated from, was not clamped, and
\* the wall response changed the vx that x was then advanced by.
C23_Witness ==
    /\ last.op = "update"
    /\ SampleIndex(blobs[last.blob].y) # last.solvent_index
    /\ ~ClampTriggered
    /\ last.collided.collided_left
    /\ last.collided.vx # last.pre.vx
    /\ last.pre.vx # 0
    /\ blobs[last.blob].density # last.pre.density
    /\ blobs[last.blob].x = last.pre.x + last.collided.vx


\* C24: in every state of a run of main every sample of the profile is
\* within [top_temp, bottom_temp], and so is every blob's temperature.
C24_TemperaturesBounded ==
    /\ \A j \in 1..Len(temperature_profile) :
          top_temp <= temperature_profile[j] /\ temperature_profile[j] <= bottom_temp
    /\ \A i \in 1..num_blobs :
          top_temp <= blobs[i].temperature /\ blobs[i].temperature <= bottom_temp

\* C24 witness: late in the run the profile has left its initial line and
\* a blob has been heated by more than twenty degrees.
C24_Witness ==
    /\ ticks >= 30
    /\ last.op = "update"
    /\ temperature_profile # InitialProfile
    /\ \E j \in 2..(steps - 1) : temperature_profile[j] # InitialProfile[j]
    /\ blobs[1].temperature > BlobInit(blobs[1].x, SpawnY(0), blob_radius).temperature
                                 + (bottom_temp - top_temp) \div 2


\* the event handled in the step to the next state is a press of the mouse
\* button on the reset button, resp. on a square of the board
ResetClicked(e) == e.type = "MOUSEBUTTONDOWN" /\ collidepoint(reset_button, e.pos)
SquareClicked(e) ==
    e.type = "MOUSEBUTTONDOWN" /\ ~collidepoint(reset_button, e.pos) /\ e.pos[2] < WIDTH
ClickedRow(e) == e.pos[2] \div SQUARE_SIZE
ClickedCol(e) == e.pos[1] \div SQUARE_SIZE

\* C25: a cell that holds X or O keeps its mark across every event, except
\* that a click on the reset button empties the whole board; and a click on
\* an occupied square changes neither the board nor the player to move.
C25_MarksAreKept ==
    [][/\ \A row \in 0..(BOARD_ROWS - 1), col \in 0..(BOARD_COLS - 1) :
            board[row][col] # "None" =>
                \/ board'[row][col] = board[row][col]
                \/ ResetClicked(event') /\ board' = EmptyBoard
       /\ (SquareClicked(event') /\ board[ClickedRow(event')][ClickedCol(event')] # "None") =>
            (board' = board /\ player' = player)]_vars

\* C25 witness: the game is on and the square clicked last holds the mark of
\* the player to move, so the click was on an occupied square and placed
\* nothing.
C25_Witness ==
    /\ pc = "loop"
    /\ SquareClicked(event)
    /\ ~game_over
    /\ board[ClickedRow(event)][ClickedCol(event)] = player


\* C26: once the game is over, no click other than one on the reset button
\* changes the board, the player to move, the status text or game_over; a
\* click on the reset button, from any state, gives an empty board, player X
\* and game_over = False.
C26_FrozenUntilReset ==
    [][/\ (game_over /\ ~ResetClicked(event')) =>
            /\ board' = board
            /\ player' = player
            /\ status_text' = status_text
            /\ game_over'
       /\ ResetClicked(event') =>
            /\ board' = EmptyBoard
            /\ player' = "X"
            /\ ~game_over']_vars

\* C26 witness: the game is over with free squares left and the last click
\* was on one of them, which is still free.
C26_Witness ==
    /\ pc = "loop"
    /\ game_over
    /\ SquareClicked(event)
    /\ board[ClickedRow(event)][ClickedCol(event)] = "None"


\* the event handled in the step to the next state is a press of the mouse
\* button on the start/pause button
StartPauseClicked(e) ==
    e.type = "MOUSEBUTTONDOWN" /\ collidepoint(start_pause_button_rect, e.pos)

\* C27: a click on the start/pause button of a started simulation toggles
\* paused: a running simulation (label 'Pause') becomes paused and a paused
\* one resumes.  The code does not do this: the branch of line 204 requires
\* `not started`, so the click falls through the whole chain and paused stays
\* False.
C27_StartPauseToggles ==
    [][(started /\ StartPauseClicked(event')) =>
            /\ ButtonLabel = "Pause" => paused'
            /\ ButtonLabel = "Start" => ~paused']_vars

\* C28: while started is True no event changes selected_disp_type,
\* selected_vel_type or a text of text_inputs.  The code does not do this for
\* the texts: the KEYDOWN branch of line 233 tests active_input only, and a
\* textbox activated before the start stays active.
C28_OptionsFrozenWhileStarted ==
    [][started => UNCHANGED <<selected_disp_type, selected_vel_type, text_inputs>>]_vars

====
